---- MODULE Spec2Model ----
(***************************************************************************)
(* Feed-processing orchestrator of misskey-rss-summarizer:                 *)
(* RSSFeedService.ProcessAllFeeds / ProcessFeed over the cache repository  *)
(* (memoryCache or sqliteCache) and the rate-limited note repository.      *)
(***************************************************************************)
EXTENDS Integers, Sequences, FiniteSets, TLC

\* ---- bounds of the model ------------------------------------------------
MaxTime == 3
MaxLen == 2
MaxCapacity == 2
MaxRefill == 2
MaxNow == 3

\* ---- values ---------------------------------------------------------------
\* item identifiers: two distinct ones, so that a list may repeat one
GUIDs == {1, 2}

\* time.Time{}: the zero instant, IsZero() holds of it alone
ZeroTime == 0

\* time.Second, in ticks of the publish clock
Second == 2

\* publish instants, in ticks after the zero instant; feeds carry dates of our era
Times == Second..MaxTime

\* Title and Description carried by the feed item with a given GUID
TitleOf(g) == IF g % 2 = 1 THEN <<"f", "o">> ELSE <<"b">>

DescriptionOf(g) == IF g % 2 = 1 THEN <<>> ELSE <<"q">>

NewFeedEntry(title, link, description, published, guid) ==
  [Title |-> title, Link |-> link, Description |-> description,
   Published |-> published, GUID |-> guid]

EntryPool == {NewFeedEntry(TitleOf(g), g, DescriptionOf(g), t, g) : g \in GUIDs, t \in Times}

SeqsUpTo(S, n) == UNION {[1..k -> S] : k \in 0..n}

\* what feedRepo.Fetch may return for one address
FeedContents == SeqsUpTo(EntryPool, MaxLen)

\* config.RSSSettings values: a descriptor without keywords, one with a keyword
PlainFeed == [URL |-> "u1", Keywords |-> <<>>]

KeywordFeed == [URL |-> "u2", Keywords |-> << <<"f">> >>]

URLsOf(descriptors) == {descriptors[i].URL : i \in 1..Len(descriptors)}

\* ---- pure functions -------------------------------------------------------
\* (mutant) an instant is after itself
AfterOrAt(t, u) == t >= u

\* time.Time.After
After(t, u) == t > u

\* time.Time.Before
Before(t, u) == t < u

IsZero(t) == t = ZeroTime

\* (mutant) the comparison admits an entry published at t
IsNewerThanOrAt(entry, t) == entry.Published >= t

\* FeedEntry.IsNewerThan
IsNewerThan(entry, t) == After(entry.Published, t)

\* time.Time.Unix(): whole seconds
Unix(t) == t \div Second

\* time.Unix(sec, 0)
FromUnix(sec) == sec * Second

\* strings.Contains
Contains(s, substr) ==
  \E i \in 0..(Len(s) - Len(substr)) : SubSeq(s, i + 1, i + Len(substr)) = substr

\* (mutant) only the title is searched
KeywordMatchTitle(entry, keywords) ==
  \E k \in 1..Len(keywords) : Contains(entry.Title, keywords[k])

KeywordMatch(entry, keywords) ==
  \E k \in 1..Len(keywords) :
    Contains(entry.Title, keywords[k]) \/ Contains(entry.Description, keywords[k])

\* (mutant) no early return for an empty keyword list
filterByKeywordsLoopOnly(entries, keywords) ==
  SelectSeq(entries, LAMBDA e : KeywordMatch(e, keywords))

filterByKeywords(entries, keywords) ==
  IF Len(keywords) = 0 THEN entries
  ELSE SelectSeq(entries, LAMBDA e : KeywordMatch(e, keywords))

RECURSIVE mostRecentFrom(_, _, _)
mostRecentFrom(entries, i, mostRecent) ==
  IF i > Len(entries) THEN mostRecent
  ELSE mostRecentFrom(entries, i + 1,
         IF After(entries[i].Published, mostRecent.Published) THEN entries[i] ELSE mostRecent)

\* keyword lists of a descriptor: none, one matching a title, several matching
\* one entry, one matching a description, one matching nothing, one that is
\* made of letters of a title without being part of it, the empty keyword
KeywordLists ==
  {<<>>, << <<"f">> >>, << <<"f">>, <<"o">> >>, << <<"q">> >>, << <<"x">> >>,
   << <<"f", "o">>, <<"b">> >>, << <<"o", "f">> >>, << <<>> >>}

\* (mutant) the first entry stands for the most recent one
findFirstEntry(entries) ==
  IF Len(entries) = 0 THEN <<>> ELSE << entries[1] >>

findMostRecentEntry(entries) ==
  IF Len(entries) = 0 THEN <<>> ELSE << mostRecentFrom(entries, 2, entries[1]) >>

\* the less function handed to sort.Slice
SortLess(a, b) == Before(a.Published, b.Published)

IsSortedBy(s) == \A i, j \in 1..Len(s) : i < j => ~SortLess(s[j], s[i])

\* (mutant) the list is left in fetch order
sortNothing(entries) == {entries}

\* sort.Slice is not stable: any ordered rearrangement may result
sortEntriesByPublishedAsc(entries) ==
  {s \in {[i \in 1..Len(entries) |-> entries[pi[i]]] : pi \in Permutations(1..Len(entries))} :
     IsSortedBy(s)}

min(a, b) == IF a < b THEN a ELSE b

\* ---- rateLimiter.Wait, piece by piece ---------------------------------------
\* elapsed: now - lastRefill; rate: refillRate
permitsToAdd(elapsed, rate) == elapsed \div rate

\* (mutant) the refill is not capped
refillUncapped(n, elapsed, max, rate) ==
  IF permitsToAdd(elapsed, rate) > 0 THEN n + permitsToAdd(elapsed, rate) ELSE n

\* rl.permits after the refill step
refill(n, elapsed, max, rate) ==
  IF permitsToAdd(elapsed, rate) > 0 THEN min(n + permitsToAdd(elapsed, rate), max) ELSE n

\* now - rl.lastRefill after the refill step
elapsedAfterRefill(elapsed, rate) ==
  IF permitsToAdd(elapsed, rate) > 0 THEN 0 ELSE elapsed

\* waitTime of a call that finds no permit
waitTime(elapsed, rate) == rate - (elapsed % rate)

\* (mutant) the fast path takes two permits
takePermitTwice(n) == n - 2

\* rl.permits-- on the fast path
takePermit(n) == n - 1

\* (mutant) a cancelled call has consumed a permit
cancelledWaitConsuming(n) == n - 1

\* rl.permits after the ctx.Done() branch: untouched
cancelledWait(n) == n

\* rl.permits after the timer branch: rl.permits = 1; rl.permits--
timerGrant(n) == 1 - 1

\* ---- state ----------------------------------------------------------------
VARIABLES
  rssSettings,        \* cfg.RSSURL: the configured feed descriptors
  maxPermits,         \* rateLimiter.maxPermits
  refillRate,         \* rateLimiter.refillRate, in ticks of the wall clock
  storeKind,          \* "memory" (memoryCache) or "sqlite" (sqliteCache)
  cfgFirstRunLatestOnly, \* cfg.FirstRunLatestOnly (FIRST_RUN_LATEST_ONLY)
  summarizerRepo,     \* RSSFeedService.summarizerRepo: "nil", "disabled" or "enabled"
  firstRunLatestOnly, \* RSSFeedService.firstRunLatestOnly
  latestPublished,    \* cache: rssURL -> <<>> when absent, else <<stored value>>
  processedGUIDs,     \* cache: set of guids marked processed
  processedAt,        \* sqliteCache: guid -> processed_at, in seconds
  now,                \* time.Now() as the cache reads it, in ticks
  permits,            \* rateLimiter.permits
  sinceRefill,        \* now - rateLimiter.lastRefill, in ticks (capped)
  ctxCancelled,       \* the top-level context is done
  pass,               \* per control thread: position and locals of ProcessAllFeeds/ProcessFeed
  delivered           \* history: rssURL -> guids whose Post returned nil

vars == <<rssSettings, maxPermits, refillRate, storeKind, cfgFirstRunLatestOnly,
          summarizerRepo, firstRunLatestOnly, latestPublished,
          processedGUIDs, processedAt, now, permits, sinceRefill, ctxCancelled, pass, delivered>>

config == <<rssSettings, maxPermits, refillRate, storeKind, cfgFirstRunLatestOnly,
            summarizerRepo, firstRunLatestOnly>>
cache == <<latestPublished, processedGUIDs, processedAt>>
limiter == <<permits, sinceRefill>>

\* elapsed time beyond this refills the bucket completely all the same
SinceRefillCap == maxPermits * refillRate

IdlePass ==
  [pc |-> "idle", feedIdx |-> 0, called |-> <<>>, failedFeeds |-> {}, allErr |-> "none",
   url |-> "", entries |-> <<>>, latestPublished |-> ZeroTime, isFirstRun |-> FALSE,
   newEntries |-> <<>>, idx |-> 0, latestTime |-> ZeroTime, timer |-> 0, err |-> "nil",
   \* history of the current ProcessFeed call; raw: the list Fetch returned, kept
   \* up to the watermark read; summarize: the Summarize call made for the entry in
   \* hand (none: <<>>); note: the Text of the note built for it
   \* failed: the call that made the pass give up ("none", "fetch", "latest")
   \* checkErrs: the indexes of entries at which IsProcessed returned an error
   raw |-> <<>>, summarize |-> <<>>, note |-> <<>>, failed |-> "none", selected |-> FALSE, checkErr |-> FALSE, checkErrs |-> {}, attempts |-> <<>>, posted |-> <<>>,
   markErr |-> FALSE, waitCancelled |-> FALSE, procBefore |-> {}]

\* ---- cache repository (memoryCache, sqliteCache) ---------------------------
\* memoryCache never fails; a sqliteCache call fails on a done context and may fail otherwise
StoreOutcomes ==
  IF storeKind = "memory" THEN {"ok"}
  ELSE IF ctxCancelled THEN {"err"} ELSE {"ok", "err"}

\* value returned by GetLatestPublishedTime for the stored row
GetLatestPublishedTime(kind, row) ==
  IF row = <<>> THEN ZeroTime
  ELSE IF kind = "memory" THEN row[1] ELSE FromUnix(row[1])

\* row written by SaveLatestPublishedTime
SaveLatestPublishedTime(kind, published) ==
  IF kind = "memory" THEN <<published>> ELSE <<Unix(published)>>

IsProcessed(guids, guid) == guid \in guids

\* (mutant) marking replaces the set
MarkAsProcessedAlone(guids, guid) == {guid}

MarkAsProcessed(guids, guid) == guids \cup {guid}

\* (mutant) INSERT OR REPLACE: a second mark moves processed_at
MarkedAtReplace(kind, at, guid, t) ==
  [g \in DOMAIN at \cup {guid} |->
     IF g = guid THEN (IF kind = "sqlite" THEN Unix(t) ELSE 0) ELSE at[g]]

\* processed_at after MarkAsProcessed at instant t: INSERT ... ON CONFLICT(guid) DO
\* NOTHING with time.Now().Unix(); the memoryCache map holds true, here 0
MarkedAt(kind, at, guid, t) ==
  [g \in DOMAIN at \cup {guid} |->
     IF g \in DOMAIN at THEN at[g] ELSE (IF kind = "sqlite" THEN Unix(t) ELSE 0)]

\* CleanupOldGUIDs: cutoff := time.Now().Add(-olderThan).Unix()
cutoff(t, olderThan) == Unix(t - olderThan)

\* the rows DELETE FROM processed_guids WHERE processed_at < cutoff removes
CleanupOldGUIDs(at, t, olderThan) == {g \in DOMAIN at : at[g] < cutoff(t, olderThan)}

\* ---- orchestrator ---------------------------------------------------------
\* (mutant) the watermark is not consulted
shouldSkipEntryNoWatermark(isErr, processed, entry, latest, isFirstRun) ==
  IF isErr THEN TRUE ELSE processed

\* isErr: IsProcessed returned an error; processed: its answer otherwise
shouldSkipEntry(isErr, processed, entry, latest, isFirstRun) ==
  IF isErr THEN TRUE
  ELSE IF processed THEN TRUE
  ELSE IF ~isFirstRun /\ ~IsNewerThan(entry, latest) THEN TRUE
  ELSE FALSE

\* (mutant) an entry whose check failed is taken as unprocessed
filterLoopErrorAsNew(entries, i, latest, isFirstRun, guids, errs) ==
  SelectSeq(SubSeq(entries, i, Len(entries)),
            LAMBDA e : ~shouldSkipEntry(FALSE, IsProcessed(guids, e.GUID), e, latest, isFirstRun))

\* the loop of filterNewEntries from index i on; errs: the indexes at which IsProcessed fails
RECURSIVE filterLoop(_, _, _, _, _, _)
filterLoop(entries, i, latest, isFirstRun, guids, errs) ==
  IF i > Len(entries) THEN <<>>
  ELSE LET rest == filterLoop(entries, i + 1, latest, isFirstRun, guids, errs)
       IN IF shouldSkipEntry(i \in errs, IsProcessed(guids, entries[i].GUID),
                             entries[i], latest, isFirstRun)
          THEN rest ELSE <<entries[i]>> \o rest

\* (mutant) a first run keeps the most recent entry whatever the policy flag
filterNewEntriesLatestOnly(entries, latest, isFirstRun, latestOnly, guids, errs) ==
  IF isFirstRun THEN findMostRecentEntry(entries)
  ELSE filterLoop(entries, 1, latest, isFirstRun, guids, errs)

filterNewEntries(entries, latest, isFirstRun, latestOnly, guids, errs) ==
  IF isFirstRun /\ latestOnly THEN findMostRecentEntry(entries)
  ELSE filterLoop(entries, 1, latest, isFirstRun, guids, errs)

\* what the service may hold as summarizerRepo: nil (as tests construct it), a
\* repository whose IsEnabled() is false (noopSummarizer), an enabled one
Summarizers == {"nil", "disabled", "enabled"}

IsEnabled(repo) == repo = "enabled"

\* what a Summarize call returns: an error with no text, a summary, an empty text
SummarizeResults ==
  {[summary |-> <<>>, err |-> TRUE], [summary |-> <<"s">>, err |-> FALSE],
   [summary |-> <<>>, err |-> FALSE]}

\* summarizeEntry: the Summarize calls it may make, <<>> when it makes none
SummarizeCalls(repo) ==
  IF repo = "nil" \/ ~IsEnabled(repo) THEN {<<>>}
  ELSE {<<result>> : result \in SummarizeResults}

\* summarizeEntry: the summary it returns given the call it made
summarizeEntry(call) ==
  IF call = <<>> THEN <<>>
  ELSE IF call[1].err THEN <<>>
  ELSE call[1].summary

\* the heading of the summary section of a note
SummaryHeading == "[summary]"

\* (mutant) the note always carries the summary section
NewNoteWithSummarySection(entry, summary) ==
  <<"[news]">> \o entry.Title \o <<"NL", "NL", SummaryHeading, "NL">> \o summary
    \o <<"NL", "NL", ToString(entry.Link)>>

\* Note.Text as its pieces: mark, title, (heading and summary,) link; NL is a line break
NewNoteFromFeedWithSummary(entry, summary) ==
  IF summary # <<>>
  THEN <<"[news]">> \o entry.Title \o <<"NL", "NL", SummaryHeading, "NL">> \o summary
         \o <<"NL", "NL", ToString(entry.Link)>>
  ELSE <<"[news]">> \o entry.Title \o <<"NL", ToString(entry.Link)>>

\* (mutant) the failure is logged and ProcessFeed returns nil
ReturnErrorSwallowed(ps, call) ==
  [ps EXCEPT !.pc = "ret", !.err = "nil", !.raw = <<>>, !.failed = call]

\* ProcessFeed when feedRepo.Fetch ("fetch") or GetLatestPublishedTime ("latest")
\* returned an error: return fmt.Errorf(...)
ReturnError(ps, call) ==
  [ps EXCEPT !.pc = "ret", !.err = call, !.raw = <<>>, !.failed = call]

\* (mutant) the entry is marked whatever Post returned
MarkedAfterAnyPost(guids, guid, postErr, markErr) ==
  IF markErr THEN guids ELSE MarkAsProcessed(guids, guid)

\* postEntries: the processed guids once Post returned for the entry: a failed
\* Post is logged and the loop continues; MarkAsProcessed follows a successful
\* one, and leaves the store as it was when it fails
MarkedAfterPost(guids, guid, postErr, markErr) ==
  IF postErr THEN guids
  ELSE IF markErr THEN guids
  ELSE MarkAsProcessed(guids, guid)

\* latestTime after a successful post of entry
NextLatestTime(entry, latestTime) ==
  IF After(entry.Published, latestTime) THEN entry.Published ELSE latestTime

\* (mutant) the entry in hand is tried again
AfterEntryRetrying(ps) == [ps EXCEPT !.pc = "post"]

\* postEntries once the entry at idx is dealt with (a failed Post is logged and
\* the loop continues): next iteration, or out of the loop
AfterEntry(ps) ==
  IF ps.idx < Len(ps.newEntries)
  THEN [ps EXCEPT !.idx = @ + 1, !.pc = "post"]
  ELSE [ps EXCEPT !.pc = "save"]

\* (mutant) the loop ends at the first error
NextFeedStopOnError(descriptors, feedIdx, err) ==
  IF err = "nil" /\ feedIdx < Len(descriptors) THEN feedIdx + 1 ELSE 0

\* ProcessAllFeeds once ProcessFeed returned err for the descriptor at feedIdx (an
\* error is logged and the loop goes on): index of the next descriptor, 0 at the end
NextFeed(descriptors, feedIdx, err) ==
  IF feedIdx < Len(descriptors) THEN feedIdx + 1 ELSE 0

Range(s) == {s[i] : i \in 1..Len(s)}

\* (mutant) the configured value is used whatever the cache
configuredFirstRunLatestOnly(isPersistentCache, configured) == configured

\* main: firstRunLatestOnly := cfg.FirstRunLatestOnly, overridden to true when
\* the cache is the in-memory one and the configured value is false
effectiveFirstRunLatestOnly(isPersistentCache, configured) ==
  IF isPersistentCache THEN configured
  ELSE IF ~configured THEN TRUE ELSE configured

\* main: the state once the repositories and the service are constructed
Started(descriptors) ==
  /\ rssSettings = descriptors
  /\ maxPermits = 1
  /\ refillRate = 1
  /\ storeKind \in {"memory", "sqlite"}
  /\ cfgFirstRunLatestOnly \in BOOLEAN
  /\ summarizerRepo \in Summarizers
  /\ firstRunLatestOnly = effectiveFirstRunLatestOnly(storeKind = "sqlite", cfgFirstRunLatestOnly)
  /\ latestPublished = [u \in URLsOf(descriptors) |-> <<>>]
  /\ processedGUIDs = {}
  /\ processedAt = <<>>
  /\ now = 0
  /\ permits = maxPermits
  /\ sinceRefill = 0
  /\ ctxCancelled = FALSE
  /\ pass = [p \in {1} |-> IdlePass]
  /\ delivered = [u \in URLsOf(descriptors) |-> {}]

\* one configured feed, no LLM provider configured (the noop summarizer)
Init ==
  /\ \E d \in {PlainFeed, KeywordFeed} : Started(<<d>>)
  /\ summarizerRepo = "disabled"

\* main: the ticker (or startup) calls ProcessAllFeeds
StartAll(p) ==
  /\ pass[p].pc \in {"idle", "done"}
  /\ pass' = [pass EXCEPT ![p] = [IdlePass EXCEPT !.pc = "fetch", !.feedIdx = 1]]
  /\ UNCHANGED <<config, now, cache, limiter, ctxCancelled, delivered>>

\* ProcessFeed: feedRepo.Fetch, filterByKeywords, the empty-list return
Fetch(p) ==
  /\ pass[p].pc = "fetch"
  /\ LET ps == pass[p]
         setting == rssSettings[ps.feedIdx]
         start == [ps EXCEPT !.url = setting.URL, !.procBefore = processedGUIDs]
     IN \/ pass' = [pass EXCEPT ![p] = ReturnError(start, "fetch")]
        \/ /\ ~ctxCancelled
           /\ \E raw \in FeedContents :
                LET entries == filterByKeywords(raw, setting.Keywords)
                IN pass' = [pass EXCEPT ![p] =
                     IF Len(entries) = 0
                     THEN [start EXCEPT !.pc = "ret", !.err = "nil", !.raw = raw]
                     ELSE [start EXCEPT !.pc = "select", !.entries = entries, !.raw = raw]]
  /\ UNCHANGED <<config, now, cache, limiter, ctxCancelled, delivered>>

\* ProcessFeed: GetLatestPublishedTime, isFirstRun, filterNewEntries, the
\* empty-list return, sortEntriesByPublishedAsc
Select(p) ==
  /\ pass[p].pc = "select"
  /\ LET ps == pass[p]
     IN \E o \in StoreOutcomes :
          IF o = "err"
          THEN pass' = [pass EXCEPT ![p] = ReturnError(ps, "latest")]
          ELSE LET latest == GetLatestPublishedTime(storeKind, latestPublished[ps.url])
                   isFirstRun == IsZero(latest)
                   ps1 == [ps EXCEPT !.latestPublished = latest, !.isFirstRun = isFirstRun,
                                     !.selected = TRUE, !.raw = <<>>]
               IN \E errs \in SUBSET (1..Len(ps.entries)) :
                    /\ errs # {} => ("err" \in StoreOutcomes /\ ~(isFirstRun /\ firstRunLatestOnly))
                    /\ LET new == filterNewEntries(ps.entries, latest, isFirstRun,
                                                   firstRunLatestOnly, processedGUIDs, errs)
                           ps2 == [ps1 EXCEPT !.checkErr = (errs # {}), !.checkErrs = errs]
                       IN IF Len(new) = 0
                          THEN pass' = [pass EXCEPT ![p] = [ps2 EXCEPT !.pc = "ret", !.err = "nil"]]
                          ELSE \E s \in sortEntriesByPublishedAsc(new) :
                                 pass' = [pass EXCEPT ![p] =
                                   [ps2 EXCEPT !.newEntries = s, !.idx = 1,
                                               !.latestTime = ZeroTime, !.pc = "post"]]
  /\ UNCHANGED <<config, now, cache, limiter, ctxCancelled, delivered>>

\* postEntries: summarizeEntry, NewNoteFromFeedWithSummary, noteRepo.Post up to
\* the end of the locked section of rateLimiter.Wait
Post(p) ==
  /\ pass[p].pc = "post"
  /\ LET ps == pass[p]
         entry == ps.newEntries[ps.idx]
         refilled == refill(permits, sinceRefill, maxPermits, refillRate)
         since == elapsedAfterRefill(sinceRefill, refillRate)
     IN \E call \in SummarizeCalls(summarizerRepo) :
          LET note == NewNoteFromFeedWithSummary(entry, summarizeEntry(call))
              ps1 == [ps EXCEPT !.attempts = Append(@, entry), !.summarize = call,
                                !.note = note]
          IN IF refilled <= 0
             THEN /\ permits' = refilled
                  /\ sinceRefill' = since
                  /\ pass' = [pass EXCEPT ![p] =
                       [ps1 EXCEPT !.pc = "blocked", !.timer = waitTime(since, refillRate)]]
             ELSE /\ permits' = takePermit(refilled)
                  /\ sinceRefill' = since
                  /\ pass' = [pass EXCEPT ![p] = [ps1 EXCEPT !.pc = "http"]]
  /\ UNCHANGED <<config, now, cache, ctxCancelled, delivered>>

\* rateLimiter.Wait: case <-timer.C
TimerFired(p) ==
  /\ pass[p].pc = "blocked"
  /\ pass[p].timer = 0
  /\ permits' = timerGrant(permits)
  /\ sinceRefill' = 0
  /\ pass' = [pass EXCEPT ![p].pc = "http"]
  /\ UNCHANGED <<config, now, cache, ctxCancelled, delivered>>

\* rateLimiter.Wait: case <-ctx.Done(); Post returns the error, postEntries logs it
WaitCancelled(p) ==
  /\ pass[p].pc = "blocked"
  /\ ctxCancelled
  /\ pass' = [pass EXCEPT ![p] = AfterEntry([pass[p] EXCEPT !.waitCancelled = TRUE])]
  /\ UNCHANGED <<config, now, cache, limiter, ctxCancelled, delivered>>

\* noteRepo.Post after Wait: the HTTP request, which fails on a done context;
\* postEntries after a successful Post: MarkAsProcessed (an error is logged), latestTime
Http(p) ==
  /\ pass[p].pc = "http"
  /\ LET ps == pass[p]
         entry == ps.newEntries[ps.idx]
     IN \/ /\ pass' = [pass EXCEPT ![p] = AfterEntry(ps)]
           /\ processedGUIDs' = MarkedAfterPost(processedGUIDs, entry.GUID, TRUE, FALSE)
           /\ UNCHANGED <<processedAt, delivered>>
        \/ /\ ~ctxCancelled
           /\ delivered' = [delivered EXCEPT ![ps.url] = @ \cup {entry.GUID}]
           /\ \E o \in StoreOutcomes :
                /\ processedGUIDs' = MarkedAfterPost(processedGUIDs, entry.GUID, FALSE, o = "err")
                /\ processedAt' = IF o = "ok" THEN MarkedAt(storeKind, processedAt, entry.GUID, now)
                                  ELSE processedAt
                /\ pass' = [pass EXCEPT ![p] =
                     AfterEntry([ps EXCEPT !.posted = Append(@, entry),
                                           !.latestTime = NextLatestTime(entry, @),
                                           !.markErr = @ \/ (o = "err")])]
  /\ UNCHANGED <<config, now, latestPublished, limiter, ctxCancelled>>

\* ProcessFeed after postEntries: SaveLatestPublishedTime unless latestTime is zero
Save(p) ==
  /\ pass[p].pc = "save"
  /\ LET ps == pass[p]
     IN IF IsZero(ps.latestTime)
        THEN /\ pass' = [pass EXCEPT ![p] = [ps EXCEPT !.pc = "ret", !.err = "nil"]]
             /\ UNCHANGED latestPublished
        ELSE \E o \in StoreOutcomes :
               IF o = "err"
               THEN /\ pass' = [pass EXCEPT ![p] = [ps EXCEPT !.pc = "ret", !.err = "save"]]
                    /\ UNCHANGED latestPublished
               ELSE /\ pass' = [pass EXCEPT ![p] = [ps EXCEPT !.pc = "ret", !.err = "nil"]]
                    /\ latestPublished' = [latestPublished EXCEPT ![ps.url] =
                         SaveLatestPublishedTime(storeKind, ps.latestTime)]
  /\ UNCHANGED <<config, now, processedGUIDs, processedAt, limiter, ctxCancelled, delivered>>

\* ProcessAllFeeds: ProcessFeed returned; log an error, go on with the next descriptor or return nil
Return(p) ==
  /\ pass[p].pc = "ret"
  /\ LET ps == pass[p]
         next == NextFeed(rssSettings, ps.feedIdx, ps.err)
         all == [IdlePass EXCEPT !.called = Append(ps.called, ps.url),
                                 !.failedFeeds = IF ps.err = "nil" THEN ps.failedFeeds
                                                 ELSE ps.failedFeeds \cup {ps.feedIdx}]
     IN pass' = [pass EXCEPT ![p] =
          IF next = 0 THEN [all EXCEPT !.pc = "done", !.allErr = "nil"]
          ELSE [all EXCEPT !.pc = "fetch", !.feedIdx = next]]
  /\ UNCHANGED <<config, now, cache, limiter, ctxCancelled, delivered>>

\* the wall clock advances by one tick
Tick ==
  /\ sinceRefill' = min(sinceRefill + 1, SinceRefillCap)
  /\ pass' = [p \in DOMAIN pass |->
               IF pass[p].pc = "blocked" /\ pass[p].timer > 0
               THEN [pass[p] EXCEPT !.timer = @ - 1] ELSE pass[p]]
  /\ UNCHANGED <<config, now, cache, permits, ctxCancelled, delivered>>

\* main: the shutdown signal cancels the top-level context
Cancel ==
  /\ ~ctxCancelled
  /\ ctxCancelled' = TRUE
  /\ UNCHANGED <<config, now, cache, limiter, pass, delivered>>

Next ==
  \/ \E p \in DOMAIN pass :
       \/ StartAll(p)
       \/ Fetch(p)
       \/ Select(p)
       \/ Post(p)
       \/ TimerFired(p)
       \/ WaitCancelled(p)
       \/ Http(p)
       \/ Save(p)
       \/ Return(p)
  \/ Tick
  \/ Cancel

Spec == Init /\ [][Next]_vars

\* every configured feed: one descriptor without keywords, one with, on the
\* sqliteCache, FIRST_RUN_LATEST_ONLY at its default
InitAll ==
  /\ Started(<<PlainFeed, KeywordFeed>>)
  /\ storeKind = "sqlite"
  /\ cfgFirstRunLatestOnly = TRUE
  /\ summarizerRepo = "disabled"

SpecAll == InitAll /\ [][Next]_vars

\* one configured feed with any of the keyword lists, on the memoryCache
InitFilter ==
  /\ \E keywords \in KeywordLists : Started(<< [URL |-> "u1", Keywords |-> keywords] >>)
  /\ storeKind = "memory"
  /\ summarizerRepo = "disabled"

SpecFilter == InitFilter /\ [][Next]_vars

\* one configured feed on the memoryCache, with any summarizer
InitSummary ==
  /\ Started(<<PlainFeed>>)
  /\ storeKind = "memory"

SpecSummary == InitSummary /\ [][Next]_vars

\* ---- the rate limiter under concurrent callers ------------------------------
\* goroutines calling rateLimiter.Wait on one limiter, as the limiter's tests do
Callers == {1, 2}

\* a caller before its first call; the fields after err are history:
\* fresh: no time has passed since newRateLimiter; fast: its fast-path returns
\* while fresh; elapsedAtBlock: now - lastRefill when it started to block;
\* waited: ticks since then; sinceGrant: ticks since its last successful
\* return (capped at refillRate, which also stands for never);
\* viaTimer: that return came from the timer branch; found, left: rl.permits
\* after the refill step of its last call and at the end of that locked section
IdleCaller ==
  [pc |-> "ready", timer |-> 0, err |-> "nil",
   fresh |-> TRUE, fast |-> 0, elapsedAtBlock |-> 0, waited |-> 0,
   sinceGrant |-> refillRate, viaTimer |-> FALSE, found |-> 0, left |-> 0]

\* newRateLimiter(maxPermits, refillRate) with a full bucket, and the callers
InitLimiter ==
  /\ rssSettings = <<>>
  /\ maxPermits \in 1..MaxCapacity
  /\ refillRate \in 1..MaxRefill
  /\ storeKind = "memory"
  /\ cfgFirstRunLatestOnly = TRUE
  /\ summarizerRepo = "disabled"
  /\ firstRunLatestOnly = TRUE
  /\ latestPublished = <<>>
  /\ processedGUIDs = {}
  /\ processedAt = <<>>
  /\ now = 0
  /\ permits = maxPermits
  /\ sinceRefill = 0
  /\ ctxCancelled = FALSE
  /\ pass = [c \in Callers |-> IdleCaller]
  /\ delivered = <<>>

\* rateLimiter.Wait up to the end of its first locked section: refill, then the
\* fast path, or the start of the wait for the timer
WaitEnter(c) ==
  /\ pass[c].pc \in {"ready", "returned"}
  /\ LET ps == pass[c]
         refilled == refill(permits, sinceRefill, maxPermits, refillRate)
         since == elapsedAfterRefill(sinceRefill, refillRate)
     IN IF refilled <= 0
        THEN /\ permits' = refilled
             /\ sinceRefill' = since
             /\ pass' = [pass EXCEPT ![c] =
                  [ps EXCEPT !.pc = "blocked", !.timer = waitTime(since, refillRate),
                             !.err = "nil", !.elapsedAtBlock = since, !.waited = 0,
                             !.found = refilled, !.left = refilled]]
        ELSE /\ permits' = takePermit(refilled)
             /\ sinceRefill' = since
             /\ pass' = [pass EXCEPT ![c] =
                  [ps EXCEPT !.pc = "returned", !.err = "nil", !.sinceGrant = 0,
                             !.viaTimer = FALSE, !.found = refilled,
                             !.left = takePermit(refilled),
                             !.fast = IF ps.fresh THEN @ + 1 ELSE @]]
  /\ UNCHANGED <<config, now, cache, ctxCancelled, delivered>>

\* rateLimiter.Wait: case <-timer.C
WaitTimer(c) ==
  /\ pass[c].pc = "blocked"
  /\ pass[c].timer = 0
  /\ permits' = timerGrant(permits)
  /\ sinceRefill' = 0
  /\ pass' = [pass EXCEPT ![c] =
       [pass[c] EXCEPT !.pc = "returned", !.err = "nil", !.sinceGrant = 0, !.viaTimer = TRUE]]
  /\ UNCHANGED <<config, now, cache, ctxCancelled, delivered>>

\* rateLimiter.Wait: case <-ctx.Done()
WaitDone(c) ==
  /\ pass[c].pc = "blocked"
  /\ ctxCancelled
  /\ permits' = cancelledWait(permits)
  /\ pass' = [pass EXCEPT ![c] = [pass[c] EXCEPT !.pc = "returned", !.err = "context canceled"]]
  /\ UNCHANGED <<config, now, cache, sinceRefill, ctxCancelled, delivered>>

\* the clock advances by one tick: timers run down, the history ages
TickLimiter ==
  /\ sinceRefill' = min(sinceRefill + 1, SinceRefillCap)
  /\ pass' = [c \in DOMAIN pass |->
               [pass[c] EXCEPT
                  !.timer = IF pass[c].pc = "blocked" /\ @ > 0 THEN @ - 1 ELSE @,
                  !.waited = IF pass[c].pc = "blocked" THEN min(@ + 1, refillRate) ELSE @,
                  !.sinceGrant = min(@ + 1, refillRate),
                  !.fresh = FALSE]]
  /\ UNCHANGED <<config, now, cache, permits, ctxCancelled, delivered>>

NextLimiter ==
  \/ \E c \in DOMAIN pass :
       \/ WaitEnter(c)
       \/ WaitTimer(c)
       \/ WaitDone(c)
  \/ TickLimiter
  \/ Cancel

SpecLimiter == InitLimiter /\ [][NextLimiter]_vars

\* ---- the cache repository under a client's calls -----------------------------
\* feed addresses the client uses
StoreURLs == {"u1", "u2"}

\* a client before its first call: the operation, key, result and error of its
\* last call, a bit flipped by every call, and as history the argument of the
\* last successful save per address, the guids it marked successfully, and
\* reopened: the store was constructed anew after the last successful write
IdleClient ==
  [pc |-> "client", op |-> "none", key |-> "", ret |-> ZeroTime, err |-> "nil", n |-> 0,
   saved |-> [u \in StoreURLs |-> <<>>], marked |-> {}, reopened |-> FALSE]

\* NewMemoryCacheRepository / NewSQLiteCacheRepository, and the client
InitStore ==
  /\ rssSettings = <<>>
  /\ maxPermits = 1
  /\ refillRate = 1
  /\ storeKind \in {"memory", "sqlite"}
  /\ cfgFirstRunLatestOnly = TRUE
  /\ summarizerRepo = "disabled"
  /\ firstRunLatestOnly = TRUE
  /\ latestPublished = [u \in StoreURLs |-> <<>>]
  /\ processedGUIDs = {}
  /\ processedAt = <<>>
  /\ now = 0
  /\ permits = maxPermits
  /\ sinceRefill = 0
  /\ ctxCancelled = FALSE
  /\ pass = [p \in {1} |-> IdleClient]
  /\ delivered = <<>>

\* the record of a call
Call(ps, op, key, ret, o) ==
  [ps EXCEPT !.op = op, !.key = key, !.ret = ret,
             !.err = IF o = "ok" THEN "nil" ELSE "store", !.n = 1 - @]

StoreGet(p) ==
  /\ pass[p].pc = "client"
  /\ \E u \in StoreURLs, o \in StoreOutcomes :
       pass' = [pass EXCEPT ![p] =
         Call(pass[p], "get", u,
              IF o = "ok" THEN GetLatestPublishedTime(storeKind, latestPublished[u])
              ELSE ZeroTime, o)]
  /\ UNCHANGED <<config, now, cache, limiter, ctxCancelled, delivered>>

StoreSave(p) ==
  /\ pass[p].pc = "client"
  /\ \E u \in StoreURLs, t \in Times, o \in StoreOutcomes :
       /\ latestPublished' = IF o = "ok"
                             THEN [latestPublished EXCEPT ![u] = SaveLatestPublishedTime(storeKind, t)]
                             ELSE latestPublished
       /\ pass' = [pass EXCEPT ![p] =
            [Call(pass[p], "save", u, t, o) EXCEPT
               !.saved = IF o = "ok" THEN [@ EXCEPT ![u] = <<t>>] ELSE @,
               !.reopened = @ /\ o = "err"]]
  /\ UNCHANGED <<config, now, processedGUIDs, processedAt, limiter, ctxCancelled, delivered>>

StoreIsProcessed(p) ==
  /\ pass[p].pc = "client"
  /\ \E g \in GUIDs, o \in StoreOutcomes :
       pass' = [pass EXCEPT ![p] =
         Call(pass[p], "isProcessed", g,
              IF o = "ok" THEN IsProcessed(processedGUIDs, g) ELSE FALSE, o)]
  /\ UNCHANGED <<config, now, cache, limiter, ctxCancelled, delivered>>

StoreMark(p) ==
  /\ pass[p].pc = "client"
  /\ \E g \in GUIDs, o \in StoreOutcomes :
       /\ processedGUIDs' = IF o = "ok" THEN MarkAsProcessed(processedGUIDs, g) ELSE processedGUIDs
       /\ processedAt' = IF o = "ok" THEN MarkedAt(storeKind, processedAt, g, now) ELSE processedAt
       /\ pass' = [pass EXCEPT ![p] =
            [Call(pass[p], "mark", g, ZeroTime, o) EXCEPT
               !.marked = IF o = "ok" THEN @ \cup {g} ELSE @,
               !.reopened = @ /\ o = "err"]]
  /\ UNCHANGED <<config, now, latestPublished, limiter, ctxCancelled, delivered>>

\* sqliteCache.CleanupOldGUIDs(olderThan); the memoryCache has no sweep
StoreCleanup(p) ==
  /\ pass[p].pc = "client"
  /\ storeKind = "sqlite"
  /\ \E olderThan \in 0..now, o \in StoreOutcomes :
       LET deleted == IF o = "ok" THEN CleanupOldGUIDs(processedAt, now, olderThan) ELSE {}
       IN /\ processedGUIDs' = processedGUIDs \ deleted
          /\ processedAt' = [g \in DOMAIN processedAt \ deleted |-> processedAt[g]]
          /\ pass' = [pass EXCEPT ![p] =
               Call(pass[p], "cleanup", olderThan, Cardinality(deleted), o)]
  /\ UNCHANGED <<config, now, latestPublished, limiter, ctxCancelled, delivered>>

\* time.Now() advances by one tick
Elapse ==
  /\ now < MaxNow
  /\ now' = now + 1
  /\ UNCHANGED <<config, cache, limiter, ctxCancelled, pass, delivered>>

NextStore ==
  \/ \E p \in DOMAIN pass :
       \/ StoreGet(p)
       \/ StoreSave(p)
       \/ StoreIsProcessed(p)
       \/ StoreMark(p)
       \/ StoreCleanup(p)
  \/ Elapse

SpecStore == InitStore /\ [][NextStore]_vars

\* ---- the orchestrator with a retention sweep on its database -------------------
\* CleanupOldGUIDs(olderThan) run on the sqlite database while the service runs
Sweep ==
  /\ storeKind = "sqlite"
  /\ \E olderThan \in 0..now, o \in StoreOutcomes :
       LET deleted == IF o = "ok" THEN CleanupOldGUIDs(processedAt, now, olderThan) ELSE {}
       IN /\ processedGUIDs' = processedGUIDs \ deleted
          /\ processedAt' = [g \in DOMAIN processedAt \ deleted |-> processedAt[g]]
  /\ UNCHANGED <<config, now, latestPublished, limiter, ctxCancelled, pass, delivered>>

InitSweep ==
  /\ Started(<<PlainFeed>>)
  /\ storeKind = "sqlite"
  /\ summarizerRepo = "disabled"

NextSweep ==
  \/ Next
  \/ Sweep
  \/ Elapse

SpecSweep == InitSweep /\ [][NextSweep]_vars

\* ---- the two cache repositories side by side ------------------------------------
\* a client that makes every call on a sqliteCache (the cache variables) and on a
\* memoryCache (memLatest, memGUIDs) with the same arguments; ret and retMem
\* are the two results of its last call, failed: a sqliteCache call returned an error
IdlePair ==
  [pc |-> "pair", op |-> "none", key |-> "", ret |-> ZeroTime, retMem |-> ZeroTime,
   err |-> "nil", failed |-> FALSE,
   memLatest |-> [u \in StoreURLs |-> <<>>], memGUIDs |-> {}]

\* NewSQLiteCacheRepository and NewMemoryCacheRepository, and the client
InitPair ==
  /\ rssSettings = <<>>
  /\ maxPermits = 1
  /\ refillRate = 1
  /\ storeKind = "sqlite"
  /\ cfgFirstRunLatestOnly = TRUE
  /\ summarizerRepo = "disabled"
  /\ firstRunLatestOnly = TRUE
  /\ latestPublished = [u \in StoreURLs |-> <<>>]
  /\ processedGUIDs = {}
  /\ processedAt = <<>>
  /\ now = 0
  /\ permits = maxPermits
  /\ sinceRefill = 0
  /\ ctxCancelled = FALSE
  /\ pass = [p \in {1} |-> IdlePair]
  /\ delivered = <<>>

\* the record of a call made on both repositories
CallBoth(ps, op, key, ret, retMem, o) ==
  [ps EXCEPT !.op = op, !.key = key, !.ret = ret, !.retMem = retMem,
             !.err = IF o = "ok" THEN "nil" ELSE "store", !.failed = @ \/ (o = "err")]

PairGet(p) ==
  /\ pass[p].pc = "pair"
  /\ \E u \in StoreURLs, o \in StoreOutcomes :
       pass' = [pass EXCEPT ![p] =
         CallBoth(pass[p], "get", u,
                  IF o = "ok" THEN GetLatestPublishedTime("sqlite", latestPublished[u])
                  ELSE ZeroTime,
                  GetLatestPublishedTime("memory", pass[p].memLatest[u]), o)]
  /\ UNCHANGED <<config, now, cache, limiter, ctxCancelled, delivered>>

PairSave(p) ==
  /\ pass[p].pc = "pair"
  /\ \E u \in StoreURLs, t \in Times, o \in StoreOutcomes :
       /\ latestPublished' = IF o = "ok"
                             THEN [latestPublished EXCEPT ![u] = SaveLatestPublishedTime("sqlite", t)]
                             ELSE latestPublished
       /\ pass' = [pass EXCEPT ![p] =
            [CallBoth(pass[p], "save", u, ZeroTime, ZeroTime, o) EXCEPT
               !.memLatest = [@ EXCEPT ![u] = SaveLatestPublishedTime("memory", t)]]]
  /\ UNCHANGED <<config, now, processedGUIDs, processedAt, limiter, ctxCancelled, delivered>>

PairIsProcessed(p) ==
  /\ pass[p].pc = "pair"
  /\ \E g \in GUIDs, o \in StoreOutcomes :
       pass' = [pass EXCEPT ![p] =
         CallBoth(pass[p], "isProcessed", g,
                  IF o = "ok" THEN IsProcessed(processedGUIDs, g) ELSE FALSE,
                  IsProcessed(pass[p].memGUIDs, g), o)]
  /\ UNCHANGED <<config, now, cache, limiter, ctxCancelled, delivered>>

PairMark(p) ==
  /\ pass[p].pc = "pair"
  /\ \E g \in GUIDs, o \in StoreOutcomes :
       /\ processedGUIDs' = IF o = "ok" THEN MarkAsProcessed(processedGUIDs, g) ELSE processedGUIDs
       /\ processedAt' = IF o = "ok" THEN MarkedAt("sqlite", processedAt, g, now) ELSE processedAt
       /\ pass' = [pass EXCEPT ![p] =
            [CallBoth(pass[p], "mark", g, ZeroTime, ZeroTime, o) EXCEPT
               !.memGUIDs = MarkAsProcessed(@, g)]]
  /\ UNCHANGED <<config, now, latestPublished, limiter, ctxCancelled, delivered>>

NextPair ==
  \E p \in DOMAIN pass :
    \/ PairGet(p)
    \/ PairSave(p)
    \/ PairIsProcessed(p)
    \/ PairMark(p)

SpecPair == InitPair /\ [][NextPair]_vars

\* ---- the cache repository across a restart ----------------------------------------
\* what a store constructed after a restart holds: NewSQLiteCacheRepository on
\* the same path opens the file and creates the tables IF NOT EXISTS, so the
\* rows stored are there; NewMemoryCacheRepository makes empty maps
NewCacheRepository(kind, stored, empty) ==
  IF kind = "sqlite" THEN stored ELSE empty

\* Close (sqliteCache) or the end of the process, then the constructor again
StoreReopen(p) ==
  /\ pass[p].pc = "client"
  /\ latestPublished' = NewCacheRepository(storeKind, latestPublished, [u \in StoreURLs |-> <<>>])
  /\ processedGUIDs' = NewCacheRepository(storeKind, processedGUIDs, {})
  /\ processedAt' = NewCacheRepository(storeKind, processedAt, <<>>)
  /\ pass' = [pass EXCEPT ![p] =
       [Call(pass[p], "reopen", "", ZeroTime, "ok") EXCEPT !.reopened = TRUE]]
  /\ UNCHANGED <<config, now, limiter, ctxCancelled, delivered>>

NextRestart ==
  \E p \in DOMAIN pass :
    \/ StoreGet(p)
    \/ StoreSave(p)
    \/ StoreIsProcessed(p)
    \/ StoreMark(p)
    \/ StoreReopen(p)

SpecRestart == InitStore /\ [][NextRestart]_vars

\* ---- article text for the summarizer (internal/application/rss_feed_service.go) ----
\* the revision of the service with a content fetcher: the loop body of
\* ProcessFeed for one selected entry
\* len(content) below which the page is fetched
MinContentLen == 100

\* a text of n bytes
Text(ch, n) == [i \in 1..n |-> ch]

\* entry.Description: absent, short, just below, at and above the threshold
Descriptions ==
  {Text("d", n) : n \in {0, 1, MinContentLen - 1, MinContentLen, MinContentLen + 1}}

\* what contentFetcher.FetchContent returns: an error, a page text, an empty text
FetchResults ==
  {[content |-> <<>>, err |-> TRUE], [content |-> Text("w", 2), err |-> FALSE],
   [content |-> <<>>, err |-> FALSE]}

\* (mutant) the page is fetched whatever the length of the description
FetchCallsAnyLength(fetcher, content) ==
  IF fetcher # "nil" THEN {<<result>> : result \in FetchResults} ELSE {<<>>}

\* the FetchContent calls the block may make for a description, <<>> when none
FetchCalls(fetcher, content) ==
  IF fetcher # "nil" /\ Len(content) < MinContentLen
  THEN {<<result>> : result \in FetchResults}
  ELSE {<<>>}

\* content after the fetch step: the description unless a page was fetched
ContentAfter(description, fetch) ==
  IF fetch = <<>> THEN description
  ELSE IF fetch[1].err THEN description
  ELSE fetch[1].content

\* the Summarize calls made on content, <<>> when none
SummarizeCallsOn(content) ==
  IF content # <<>>
  THEN {<< [content |-> content, summary |-> result.summary, err |-> result.err] >> :
          result \in SummarizeResults}
  ELSE {<<>>}

\* summary after the block: what Summarize returned, "" when it was not called
SummaryAfter(call) == IF call = <<>> THEN <<>> ELSE call[1].summary

\* the loop body before an entry: fetch, summarize: the calls made for the entry
IdleArticle(fetcher, description) ==
  [pc |-> "summary", contentFetcher |-> fetcher,
   entry |-> NewFeedEntry(<<"t">>, 1, description, Second, 1),
   fetch |-> <<>>, summarize |-> <<>>, note |-> <<>>, posted |-> FALSE]

\* NewRSSFeedService(feedRepo, noteRepo, cacheRepo, summarizerRepo, contentFetcher)
InitArticle ==
  /\ rssSettings = <<>>
  /\ maxPermits = 1
  /\ refillRate = 1
  /\ storeKind = "memory"
  /\ cfgFirstRunLatestOnly = TRUE
  /\ summarizerRepo \in Summarizers
  /\ firstRunLatestOnly = TRUE
  /\ latestPublished = <<>>
  /\ processedGUIDs = {}
  /\ processedAt = <<>>
  /\ now = 0
  /\ permits = maxPermits
  /\ sinceRefill = 0
  /\ ctxCancelled = FALSE
  /\ \E fetcher \in {"nil", "configured"}, description \in Descriptions :
       pass = [p \in {1} |-> IdleArticle(fetcher, description)]
  /\ delivered = <<>>

\* the summary block and NewNoteFromFeedWithSummary
SummaryBlock(p) ==
  /\ pass[p].pc = "summary"
  /\ LET ps == pass[p]
     IN IF summarizerRepo # "nil" /\ IsEnabled(summarizerRepo)
        THEN \E fetch \in FetchCalls(ps.contentFetcher, ps.entry.Description) :
               \E call \in SummarizeCallsOn(ContentAfter(ps.entry.Description, fetch)) :
                 pass' = [pass EXCEPT ![p] =
                   [ps EXCEPT !.pc = "post", !.fetch = fetch, !.summarize = call,
                              !.note = NewNoteFromFeedWithSummary(ps.entry, SummaryAfter(call))]]
        ELSE pass' = [pass EXCEPT ![p] =
               [ps EXCEPT !.pc = "post",
                          !.note = NewNoteFromFeedWithSummary(ps.entry, <<>>)]]
  /\ UNCHANGED <<config, now, cache, limiter, ctxCancelled, delivered>>

\* noteRepo.Post: nil or an error, which is logged
PostNote(p) ==
  /\ pass[p].pc = "post"
  /\ \E ok \in BOOLEAN :
       pass' = [pass EXCEPT ![p] = [pass[p] EXCEPT !.pc = "next", !.posted = ok]]
  /\ UNCHANGED <<config, now, cache, limiter, ctxCancelled, delivered>>

\* the loop goes on with another entry
NextArticle(p) ==
  /\ pass[p].pc = "next"
  /\ \E description \in Descriptions :
       pass' = [pass EXCEPT ![p] = IdleArticle(pass[p].contentFetcher, description)]
  /\ UNCHANGED <<config, now, cache, limiter, ctxCancelled, delivered>>

NextArticleStep ==
  \E p \in DOMAIN pass :
    \/ SummaryBlock(p)
    \/ PostNote(p)
    \/ NextArticle(p)

SpecArticle == InitArticle /\ [][NextArticleStep]_vars

\* ---- two passes at once ------------------------------------------------------
\* two control threads running ProcessAllFeeds over one feed address, on the
\* memoryCache and the one rate limiter
InitConcurrent ==
  /\ rssSettings = <<PlainFeed>>
  /\ maxPermits = 1
  /\ refillRate = 1
  /\ storeKind = "memory"
  /\ cfgFirstRunLatestOnly = TRUE
  /\ summarizerRepo = "disabled"
  /\ firstRunLatestOnly = effectiveFirstRunLatestOnly(FALSE, cfgFirstRunLatestOnly)
  /\ latestPublished = [u \in URLsOf(rssSettings) |-> <<>>]
  /\ processedGUIDs = {}
  /\ processedAt = <<>>
  /\ now = 0
  /\ permits = maxPermits
  /\ sinceRefill = 0
  /\ ctxCancelled = FALSE
  /\ pass = [p \in {1, 2} |-> IdlePass]
  /\ delivered = [u \in URLsOf(rssSettings) |-> {}]

SpecConcurrent == InitConcurrent /\ [][Next]_vars

\* ---- rateLimiter.Wait with its mutex ------------------------------------------
\* a caller of Wait, step by step: "lock" is rl.mu.Lock() of the first locked
\* section, "locked" that section, "blocked" the select, "timerlock" rl.mu.Lock()
\* of the timer branch, "timerlocked" its section; holdsMu: the caller holds
\* rl.mu; waited: ticks spent in the select while the timer ran (history)
IdleWaiter ==
  [pc |-> "ready", timer |-> 0, err |-> "nil", holdsMu |-> FALSE, waited |-> 0,
   viaTimer |-> FALSE]

\* rl.mu is held by some caller
MuHeld == \E c \in DOMAIN pass : pass[c].holdsMu

\* rl.mu.Lock() returning to the caller
Lock(ps) == [ps EXCEPT !.holdsMu = TRUE]

\* (mutant) the section ends without releasing rl.mu
UnlockSkipped(ps) == ps

\* rl.mu.Unlock()
Unlock(ps) == [ps EXCEPT !.holdsMu = FALSE]

\* newRateLimiter(maxPermits, refillRate) with a full bucket, and the callers
InitWait ==
  /\ rssSettings = <<>>
  /\ maxPermits \in 1..MaxCapacity
  /\ refillRate \in 1..MaxRefill
  /\ storeKind = "memory"
  /\ cfgFirstRunLatestOnly = TRUE
  /\ summarizerRepo = "disabled"
  /\ firstRunLatestOnly = TRUE
  /\ latestPublished = <<>>
  /\ processedGUIDs = {}
  /\ processedAt = <<>>
  /\ now = 0
  /\ permits = maxPermits
  /\ sinceRefill = 0
  /\ ctxCancelled = FALSE
  /\ pass = [c \in Callers |-> IdleWaiter]
  /\ delivered = <<>>

\* a goroutine calls Wait and reaches rl.mu.Lock()
WaitCall(c) ==
  /\ pass[c].pc \in {"ready", "returned"}
  /\ pass' = [pass EXCEPT ![c] = [IdleWaiter EXCEPT !.pc = "lock"]]
  /\ UNCHANGED <<config, now, cache, limiter, ctxCancelled, delivered>>

\* rl.mu.Lock() of the first section is granted
WaitLock(c) ==
  /\ pass[c].pc = "lock"
  /\ ~MuHeld
  /\ pass' = [pass EXCEPT ![c] = Lock([pass[c] EXCEPT !.pc = "locked"])]
  /\ UNCHANGED <<config, now, cache, limiter, ctxCancelled, delivered>>

\* the first locked section: refill, then the fast path or the timer, and Unlock
WaitSection(c) ==
  /\ pass[c].pc = "locked"
  /\ LET ps == pass[c]
         refilled == refill(permits, sinceRefill, maxPermits, refillRate)
         since == elapsedAfterRefill(sinceRefill, refillRate)
     IN IF refilled <= 0
        THEN /\ permits' = refilled
             /\ sinceRefill' = since
             /\ pass' = [pass EXCEPT ![c] =
                  Unlock([ps EXCEPT !.pc = "blocked", !.timer = waitTime(since, refillRate)])]
        ELSE /\ permits' = takePermit(refilled)
             /\ sinceRefill' = since
             /\ pass' = [pass EXCEPT ![c] = Unlock([ps EXCEPT !.pc = "returned", !.err = "nil"])]
  /\ UNCHANGED <<config, now, cache, ctxCancelled, delivered>>

\* select: case <-timer.C is taken; the caller reaches rl.mu.Lock()
TimerCase(c) ==
  /\ pass[c].pc = "blocked"
  /\ pass[c].timer = 0
  /\ pass' = [pass EXCEPT ![c].pc = "timerlock"]
  /\ UNCHANGED <<config, now, cache, limiter, ctxCancelled, delivered>>

\* rl.mu.Lock() of the timer branch is granted
TimerLock(c) ==
  /\ pass[c].pc = "timerlock"
  /\ ~MuHeld
  /\ pass' = [pass EXCEPT ![c] = Lock([pass[c] EXCEPT !.pc = "timerlocked"])]
  /\ UNCHANGED <<config, now, cache, limiter, ctxCancelled, delivered>>

\* the section of the timer branch: grant, consume, Unlock, return nil
TimerSection(c) ==
  /\ pass[c].pc = "timerlocked"
  /\ permits' = timerGrant(permits)
  /\ sinceRefill' = 0
  /\ pass' = [pass EXCEPT ![c] =
       Unlock([pass[c] EXCEPT !.pc = "returned", !.err = "nil", !.viaTimer = TRUE])]
  /\ UNCHANGED <<config, now, cache, ctxCancelled, delivered>>

\* select: case <-ctx.Done() is taken: return ctx.Err()
DoneCase(c) ==
  /\ pass[c].pc = "blocked"
  /\ ctxCancelled
  /\ permits' = cancelledWait(permits)
  /\ pass' = [pass EXCEPT ![c] = [pass[c] EXCEPT !.pc = "returned", !.err = "context canceled"]]
  /\ UNCHANGED <<config, now, cache, sinceRefill, ctxCancelled, delivered>>

\* the clock advances by one tick: timers run down
TickWait ==
  /\ sinceRefill' = min(sinceRefill + 1, SinceRefillCap)
  /\ pass' = [c \in DOMAIN pass |->
               IF pass[c].pc = "blocked" /\ pass[c].timer > 0
               THEN [pass[c] EXCEPT !.timer = @ - 1, !.waited = @ + 1] ELSE pass[c]]
  /\ UNCHANGED <<config, now, cache, permits, ctxCancelled, delivered>>

NextWait ==
  \/ \E c \in DOMAIN pass :
       \/ WaitCall(c)
       \/ WaitLock(c)
       \/ WaitSection(c)
       \/ TimerCase(c)
       \/ TimerLock(c)
       \/ TimerSection(c)
       \/ DoneCase(c)
  \/ TickWait
  \/ Cancel

\* the clock runs; a goroutine that can take a step takes it (a ready case of the
\* select is taken, a section runs to its Unlock); sync.Mutex hands the lock to a
\* goroutine that keeps waiting for it (starvation mode)
SpecWait ==
  /\ InitWait
  /\ [][NextWait]_vars
  /\ WF_vars(TickWait)
  /\ \A c \in Callers :
       /\ SF_vars(WaitLock(c))
       /\ WF_vars(WaitSection(c))
       /\ WF_vars(TimerCase(c))
       /\ SF_vars(TimerLock(c))
       /\ WF_vars(TimerSection(c))
       /\ WF_vars(DoneCase(c))

\* ---- a pass under fair scheduling ---------------------------------------------
\* the goroutine running ProcessAllFeeds
MainThread == 1

\* a descriptor whose keyword matches no entry
QuietFeed == [URL |-> "u0", Keywords |-> << <<"x">> >>]

\* two configured feeds with keywords on the sqliteCache, FIRST_RUN_LATEST_ONLY=false
InitFair ==
  /\ Started(<<QuietFeed, KeywordFeed>>)
  /\ storeKind = "sqlite"
  /\ cfgFirstRunLatestOnly = FALSE
  /\ summarizerRepo = "disabled"

\* the clock runs, and the goroutine that runs the pass takes its next step when
\* it can (calls return, a due timer fires)
SpecFair ==
  /\ InitFair
  /\ [][Next]_vars
  /\ WF_vars(Tick)
  /\ WF_vars(Fetch(MainThread))
  /\ WF_vars(Select(MainThread))
  /\ WF_vars(Post(MainThread))
  /\ WF_vars(TimerFired(MainThread))
  /\ WF_vars(WaitCancelled(MainThread))
  /\ WF_vars(Http(MainThread))
  /\ WF_vars(Save(MainThread))
  /\ WF_vars(Return(MainThread))

\* one configured feed without keywords on the memoryCache
InitFairMemory ==
  /\ Started(<<PlainFeed>>)
  /\ storeKind = "memory"
  /\ cfgFirstRunLatestOnly = TRUE
  /\ summarizerRepo = "disabled"

\* the same scheduling as in SpecFair
SpecFairMemory ==
  /\ InitFairMemory
  /\ [][Next]_vars
  /\ WF_vars(Tick)
  /\ WF_vars(Fetch(MainThread))
  /\ WF_vars(Select(MainThread))
  /\ WF_vars(Post(MainThread))
  /\ WF_vars(TimerFired(MainThread))
  /\ WF_vars(WaitCancelled(MainThread))
  /\ WF_vars(Http(MainThread))
  /\ WF_vars(Save(MainThread))
  /\ WF_vars(Return(MainThread))

\* ---- properties -------------------------------------------------------------
\* the watermark GetLatestPublishedTime returns for a feed address
Watermark(u) == GetLatestPublishedTime(storeKind, latestPublished[u])

\* the ProcessFeed calls that got past selection
Selecting == {p \in DOMAIN pass : pass[p].selected}

\* the ProcessFeed calls that are back from postEntries or have returned after selection
Finished == {p \in Selecting : pass[p].pc \in {"save", "ret"}}

GuidsOf(s) == {s[i].GUID : i \in 1..Len(s)}

\* C1: over any sequence of ProcessFeed passes on a feed address, no entry
\* identifier has a successful Post more than once for that address.
C1_AtMostOnce ==
  [][\A p \in DOMAIN pass :
       (pass[p].pc = "http" /\ Len(pass'[p].posted) > Len(pass[p].posted))
         => pass[p].newEntries[pass[p].idx].GUID \notin delivered[pass[p].url]]_vars

\* C2: the stored watermark of every feed address never decreases, and
\* SaveLatestPublishedTime is never called with a timestamp earlier than the
\* watermark read at the start of the pass.
C2_SaveArgument ==
  \A p \in DOMAIN pass :
    (pass[p].pc = "save" /\ ~IsZero(pass[p].latestTime))
      => pass[p].latestTime >= pass[p].latestPublished

C2_WatermarkMonotone ==
  /\ []C2_SaveArgument
  /\ [][\A u \in DOMAIN latestPublished : Watermark(u)' >= Watermark(u)]_vars

C2_Witness ==
  \E p \in DOMAIN pass :
    /\ pass[p].pc = "ret"
    /\ ~IsZero(pass[p].latestPublished)
    /\ Watermark(pass[p].url) > pass[p].latestPublished

\* C3: on a first run (no stored watermark) with first-run-latest-only enabled and
\* a non-empty filtered list, exactly one entry is handed to Post, it has the
\* maximum publish timestamp of the list, and nothing else is delivered.
C3_FirstRunSinglePost ==
  \A p \in Selecting :
    (pass[p].isFirstRun /\ firstRunLatestOnly)
      => /\ Len(pass[p].newEntries) = 1
         /\ \A e \in Range(pass[p].entries) : e.Published <= pass[p].newEntries[1].Published
         /\ pass[p].posted \in {<<>>, pass[p].newEntries}
         /\ p \in Finished => pass[p].attempts = pass[p].newEntries

C3_Witness ==
  \E p \in Finished :
    /\ pass[p].isFirstRun /\ firstRunLatestOnly
    /\ Len(pass[p].entries) = 2
    /\ pass[p].entries[1].Published > pass[p].entries[2].Published
    /\ pass[p].posted = << pass[p].entries[1] >>

\* C4: after a first-run latest-only pass whose single post succeeded (and whose
\* store writes succeeded), the stored watermark equals the publish timestamp of
\* the delivered entry, that entry is marked, and no other entry got marked.
C4_FirstRunFrame ==
  \A p \in Selecting :
    (/\ pass[p].pc = "ret" /\ pass[p].err = "nil" /\ ~pass[p].markErr
     /\ pass[p].isFirstRun /\ firstRunLatestOnly
     /\ Len(pass[p].posted) = 1)
      => /\ Watermark(pass[p].url) = pass[p].posted[1].Published
         /\ processedGUIDs = pass[p].procBefore \cup {pass[p].posted[1].GUID}

\* C5: on a non-first run, an entry is handed to Post only if it was not in the
\* delivered set and is published strictly after the watermark read at the start
\* of the pass; an entry that is newer and not delivered is selected.
C5_NonFirstRunSelection ==
  \A p \in Selecting :
    ~pass[p].isFirstRun
      => /\ \A e \in Range(pass[p].newEntries) \cup Range(pass[p].attempts) :
              /\ e.GUID \notin pass[p].procBefore
              /\ e.Published > pass[p].latestPublished
         /\ ~pass[p].checkErr =>
              \A e \in Range(pass[p].entries) :
                (e.GUID \notin pass[p].procBefore /\ e.Published > pass[p].latestPublished)
                  => e \in Range(pass[p].newEntries)

C5_Witness ==
  \E p \in Finished :
    /\ ~pass[p].isFirstRun
    /\ Len(pass[p].entries) = 2
    /\ pass[p].entries[1].Published <= pass[p].latestPublished
    /\ pass[p].entries[1].GUID \notin pass[p].procBefore
    /\ pass[p].posted = << pass[p].entries[2] >>

\* C6: with first-run-latest-only disabled and no stored watermark, every fetched
\* entry that is not in the delivered set is selected and handed to Post whatever
\* its publish timestamp, and the entries in the delivered set are skipped.
C6_FirstRunAll ==
  \A p \in Selecting :
    (pass[p].isFirstRun /\ ~firstRunLatestOnly /\ ~pass[p].checkErr)
      => /\ Len(pass[p].newEntries) =
              Cardinality({i \in 1..Len(pass[p].entries) :
                             pass[p].entries[i].GUID \notin pass[p].procBefore})
         /\ Range(pass[p].newEntries) =
              {e \in Range(pass[p].entries) : e.GUID \notin pass[p].procBefore}
         /\ p \in Finished => pass[p].attempts = pass[p].newEntries

C6_Witness ==
  \E p \in Finished :
    /\ pass[p].isFirstRun /\ ~firstRunLatestOnly /\ ~pass[p].checkErr
    /\ Len(pass[p].entries) = 2
    /\ pass[p].entries[1].GUID \in pass[p].procBefore
    /\ pass[p].attempts = << pass[p].entries[2] >>

\* C7: within one pass Post is called in non-decreasing publish-timestamp order,
\* whatever the order of the fetched list.
C7_AscendingPosts ==
  \A p \in DOMAIN pass :
    \A i, j \in 1..Len(pass[p].attempts) :
      i < j => pass[p].attempts[i].Published <= pass[p].attempts[j].Published

C7_Witness ==
  \E p \in DOMAIN pass :
    /\ Len(pass[p].entries) = 2
    /\ pass[p].entries[1].Published > pass[p].entries[2].Published
    /\ pass[p].attempts = << pass[p].entries[2], pass[p].entries[1] >>

\* the entries of the finished pass p whose Post failed and that were not delivered by it
FailedIn(p) == Range(pass[p].attempts) \ Range(pass[p].posted)

DistinctGuids(s) == \A i, j \in 1..Len(s) : i # j => s[i].GUID # s[j].GUID

C9_AllFeedsAttempted ==
  \A p \in DOMAIN pass :
    /\ pass[p].feedIdx > 0 =>
         pass[p].called = [i \in 1..(pass[p].feedIdx - 1) |-> rssSettings[i].URL]
    /\ pass[p].pc = "done" =>
         /\ pass[p].called = [i \in 1..Len(rssSettings) |-> rssSettings[i].URL]
         /\ pass[p].allErr = "nil"

C9_Witness ==
  \E p \in DOMAIN pass :
    /\ pass[p].pc = "done"
    /\ 1 \in pass[p].failedFeeds
    /\ Len(pass[p].called) = 2

\* C10: once the context is cancelled while postEntries waits for a rate-limiter
\* permit, no further entry of the pass is attempted and ProcessFeed returns the
\* cancellation as its error.
C10_CancelAbortsLoop ==
  \A p \in DOMAIN pass :
    pass[p].waitCancelled
      => /\ pass[p].pc \notin {"post", "blocked", "http"}
         /\ pass[p].pc = "ret" => pass[p].err = "context canceled"

\* ---- properties of the rate limiter ------------------------------------------
\* the callers that are inside or past a Wait call
Called == {c \in DOMAIN pass : pass[c].pc # "ready"}

\* c returns nil through the timer branch in this step
GrantedByTimer(c) ==
  /\ pass[c].pc = "blocked"
  /\ pass'[c].pc = "returned"
  /\ pass'[c].err = "nil"

RECURSIVE SumFast(_)
SumFast(S) ==
  IF S = {} THEN 0
  ELSE LET c == CHOOSE x \in S : TRUE IN pass[c].fast + SumFast(S \ {c})

\* C11: in every reachable state of a limiter of capacity >= 1, under any
\* interleaving of Wait calls, refills, timer expiries and cancellations, the
\* permit count is within 0..capacity.
C11_PermitsInRange == 0 <= permits /\ permits <= maxPermits

C11_Witness ==
  /\ maxPermits = MaxCapacity
  /\ \E c \in DOMAIN pass : ~pass[c].fresh /\ pass[c].found = maxPermits
  /\ \E c \in DOMAIN pass : pass[c].viaTimer
  /\ \E c \in DOMAIN pass : pass[c].err = "context canceled"

\* C12: callers blocked on an empty bucket are admitted one per refill interval:
\* no two grants of the timer branch fall within the same refill interval.
C12_OneAdmissionPerInterval ==
  [][\A c \in DOMAIN pass :
       GrantedByTimer(c)
         => \A d \in DOMAIN pass :
              pass[d].viaTimer => pass[d].sinceGrant >= refillRate]_vars

\* C13: a Wait call that finds k >= 1 permits returns nil without blocking and
\* leaves k - 1; a fresh limiter of capacity c serves c immediate calls and is
\* then at 0 permits.
C13_FreshBurst ==
  \A c \in DOMAIN pass :
    pass[c].fresh
      => /\ permits = maxPermits - SumFast(DOMAIN pass)
         /\ pass[c].pc = "blocked" => SumFast(DOMAIN pass) = maxPermits

C13_Burst ==
  /\ C13_FreshBurst
  /\ \A c \in Called :
       pass[c].found >= 1
         => /\ pass[c].pc = "returned" /\ pass[c].err = "nil" /\ ~pass[c].viaTimer
            /\ pass[c].left = pass[c].found - 1

C13_Witness ==
  /\ maxPermits = MaxCapacity
  /\ permits = 0
  /\ \A c \in DOMAIN pass : pass[c].fresh /\ pass[c].pc = "returned" /\ pass[c].fast >= 1

\* C14: a Wait call blocked on an exhausted limiter whose context is cancelled
\* before its timer fires returns the cancellation error and leaves permits and
\* lastRefill as they were: no permit is consumed.
C14_CancelLeavesLimiter ==
  [][\A c \in DOMAIN pass :
       (pass[c].pc = "blocked" /\ pass'[c].pc = "returned" /\ pass[c].timer > 0)
         => /\ pass'[c].err = "context canceled"
            /\ permits' = permits
            /\ sinceRefill' = sinceRefill]_vars

C14_Witness ==
  \E c \in DOMAIN pass :
    /\ pass[c].pc = "returned" /\ pass[c].err = "context canceled"
    /\ permits = 0
    /\ pass[c].timer > 0

\* C15: a Wait call that finds the bucket empty is not granted before the next
\* whole refill interval since lastRefill has elapsed; with capacity 1, two
\* consecutive Wait calls of the one caller of the limiter complete at least
\* one refill interval apart.
C15_RefillSpacing ==
  [][\A c \in DOMAIN pass :
       /\ GrantedByTimer(c) => pass[c].elapsedAtBlock + pass[c].waited >= refillRate
       /\ (/\ maxPermits = 1
           /\ Called \subseteq {c}
           /\ pass[c].pc \in {"returned", "blocked"}
           /\ pass'[c].pc = "returned" /\ pass'[c].err = "nil"
           /\ pass'[c].sinceGrant = 0
           /\ pass'[c] # pass[c])
            => pass[c].sinceGrant >= refillRate]_vars

\* ---- properties of the cache repository --------------------------------------
\* the client p makes a call of operation op in this step
Calls(p, op) == pass'[p].n # pass[p].n /\ pass'[p].op = op

\* C16: for both backends GetLatestPublishedTime returns the zero timestamp when
\* no watermark was saved for the address and otherwise the timestamp of the
\* most recent SaveLatestPublishedTime for it; a save for one address leaves
\* the watermark of every other address unchanged.
C16_GetReturnsLastSaved ==
  \A p \in DOMAIN pass :
    (pass[p].op = "get" /\ pass[p].err = "nil")
      => pass[p].ret = IF pass[p].saved[pass[p].key] = <<>> THEN ZeroTime
                       ELSE pass[p].saved[pass[p].key][1]

C16_WatermarkStore ==
  /\ []C16_GetReturnsLastSaved
  /\ [][\A p \in DOMAIN pass :
          Calls(p, "save")
            => \A v \in StoreURLs \ {pass'[p].key} : latestPublished'[v] = latestPublished[v]]_vars

\* C17: MarkAsProcessed is idempotent in both backends: a call returns no error
\* (the memoryCache never, the sqliteCache unless the database fails), leaves
\* IsProcessed true, and on a marked identifier leaves the store as it was;
\* IsProcessed is false for an identifier that was never marked.
C17_NeverMarked ==
  \A p \in DOMAIN pass :
    (pass[p].op = "isProcessed" /\ pass[p].err = "nil" /\ pass[p].key \notin pass[p].marked)
      => pass[p].ret = FALSE

C17_MarkIdempotent ==
  /\ []C17_NeverMarked
  /\ [][\A p \in DOMAIN pass :
          Calls(p, "mark")
            => /\ storeKind = "memory" => pass'[p].err = "nil"
               /\ pass'[p].err = "nil"
                    => /\ IsProcessed(processedGUIDs', pass'[p].key)
                       /\ IsProcessed(processedGUIDs, pass'[p].key) => cache' = cache]_vars

C17_Witness ==
  \E p \in DOMAIN pass :
    /\ storeKind = "sqlite"
    /\ pass[p].op = "mark" /\ pass[p].err = "nil"
    /\ processedAt[pass[p].key] < Unix(now)

\* C18: membership in the delivered set is monotone: once IsProcessed(id) is
\* true it stays true through any GetLatestPublishedTime, SaveLatestPublishedTime,
\* IsProcessed and MarkAsProcessed call; only the retention sweep removes it.
C18_MembershipMonotone ==
  [][(\A p \in DOMAIN pass : ~Calls(p, "cleanup"))
       => \A g \in GUIDs : IsProcessed(processedGUIDs, g) => IsProcessed(processedGUIDs', g)]_vars

C18_Witness ==
  \E p \in DOMAIN pass :
    /\ pass[p].op = "save" /\ pass[p].err = "nil"
    /\ processedGUIDs = GUIDs
    /\ \A u \in StoreURLs : pass[p].saved[u] # <<>>

\* C19: CleanupOldGUIDs(olderThan) removes exactly the identifiers whose recorded
\* delivery time is strictly older than now - olderThan, returns their count,
\* keeps the newer ones marked and leaves the watermarks unchanged.
C19_CleanupExact ==
  [][\A p \in DOMAIN pass :
       (Calls(p, "cleanup") /\ pass'[p].err = "nil")
         => /\ processedGUIDs \ processedGUIDs' =
                 {g \in processedGUIDs : FromUnix(processedAt[g]) < now - pass'[p].key}
            /\ processedGUIDs' \subseteq processedGUIDs
            /\ pass'[p].ret = Cardinality(processedGUIDs \ processedGUIDs')
            /\ latestPublished' = latestPublished]_vars

\* ---- properties of the retention sweep ------------------------------------------
\* the finished passes that met no store error and whose delivered identifiers
\* have all been purged since
Purged ==
  {p \in Selecting :
     /\ pass[p].pc = "ret" /\ pass[p].err = "nil"
     /\ ~pass[p].checkErr /\ ~pass[p].markErr
     /\ pass[p].posted # <<>>
     /\ GuidsOf(pass[p].posted) \cap processedGUIDs = {}}

\* C20: purging a delivered identifier from the durable store never causes the
\* entry to be posted again on a later pass: an entry delivered for a feed is
\* not after the feed's stored watermark, so the next pass over the same list
\* does not select it.
C20_SweepKeepsDelivery ==
  \A p \in Purged :
    \A e \in Range(pass[p].posted) :
      /\ e.Published <= Watermark(pass[p].url)
      /\ e \notin Range(filterNewEntries(pass[p].entries, Watermark(pass[p].url),
                                         IsZero(Watermark(pass[p].url)), firstRunLatestOnly,
                                         processedGUIDs, {}))

\* ---- properties of the two cache repositories side by side ----------------------
\* C21: memoryCache and sqliteCache are observationally equivalent: over every
\* sequence of GetLatestPublishedTime, SaveLatestPublishedTime, IsProcessed and
\* MarkAsProcessed calls with the same arguments, timestamps with a sub-second
\* part included, both return the same result at every step (stated of the
\* sequences in which no database call failed).
C21_SameResults ==
  \A p \in DOMAIN pass :
    ~pass[p].failed => pass[p].ret = pass[p].retMem

\* ---- properties of the cache repository across a restart -------------------------
\* the answer the client p expects of its last call when that call reads what
\* was written before the restart
AsWritten(p) ==
  IF pass[p].op = "get"
  THEN (IF pass[p].saved[pass[p].key] = <<>> THEN ZeroTime ELSE pass[p].saved[pass[p].key][1])
  ELSE pass[p].key \in pass[p].marked

\* the answer of a store that holds nothing
AsEmpty(p) == IF pass[p].op = "get" THEN ZeroTime ELSE FALSE

\* C22: a watermark saved and an identifier marked before the sqliteCache is
\* closed are returned unchanged by GetLatestPublishedTime and IsProcessed once
\* the store is reopened on the same path; after a restart the memoryCache
\* returns the zero time for every address and false for every identifier.
C22_Persistence ==
  \A p \in DOMAIN pass :
    (pass[p].reopened /\ pass[p].op \in {"get", "isProcessed"} /\ pass[p].err = "nil")
      => pass[p].ret = IF storeKind = "sqlite" THEN AsWritten(p) ELSE AsEmpty(p)

\* ---- properties of the keyword filter ----------------------------------------------
\* the ProcessFeed calls that hold the list Fetch returned and its filtered list
Fetched ==
  {p \in DOMAIN pass :
     \/ pass[p].pc = "select"
     \/ pass[p].pc = "ret" /\ pass[p].err = "nil" /\ ~pass[p].selected}

\* Keywords of the descriptor the call p is about
KeywordsOf(p) == rssSettings[pass[p].feedIdx].Keywords

\* C23: filterByKeywords(entries, nil) and filterByKeywords(entries, []) return
\* every input entry, unchanged and in input order.
C23_NoKeywordPassthrough ==
  \A p \in Fetched :
    Len(KeywordsOf(p)) = 0 => pass[p].entries = pass[p].raw

C23_Witness ==
  \E p \in Fetched :
    /\ Len(KeywordsOf(p)) = 0
    /\ Len(pass[p].raw) = MaxLen
    /\ pass[p].raw[1].GUID # pass[p].raw[MaxLen].GUID
    /\ pass[p].entries = pass[p].raw

\* k is a part of s: s is some text, then k, then some text
IsPartOf(k, s) ==
  \E i \in 0..Len(s), j \in 1..(Len(s) + 1) :
    SubSeq(s, 1, i) \o k \o SubSeq(s, j, Len(s)) = s

\* some keyword is a part of the title or of the description of e
Passes(e, keywords) ==
  \E n \in 1..Len(keywords) :
    IsPartOf(keywords[n], e.Title) \/ IsPartOf(keywords[n], e.Description)

\* the j-th smallest member of the set S of indexes
NthOf(S, j) == CHOOSE i \in S : Cardinality({x \in S : x < i}) = j - 1

\* the entries of s at the indexes in S, in the order of s, each once
Pick(s, S) == [j \in 1..Cardinality(S) |-> s[NthOf(S, j)]]

\* C24: with a non-empty keyword list filterByKeywords keeps an entry iff some
\* keyword is a substring of its title or of its description, each kept entry
\* once and in input order; ProcessFeed posts only entries that pass the filter.
C24_KeywordFilter ==
  \A p \in DOMAIN pass :
    (pass[p].feedIdx > 0 /\ Len(KeywordsOf(p)) > 0)
      => /\ p \in Fetched =>
              pass[p].entries =
                Pick(pass[p].raw, {i \in 1..Len(pass[p].raw) : Passes(pass[p].raw[i], KeywordsOf(p))})
         /\ \A e \in Range(pass[p].attempts) \cup Range(pass[p].posted) : Passes(e, KeywordsOf(p))

C24_Witness ==
  \E p \in Fetched :
    /\ Len(KeywordsOf(p)) = 2
    /\ Len(pass[p].raw) = 2
    /\ \A n \in 1..2 : IsPartOf(KeywordsOf(p)[n], pass[p].raw[2].Title)
    /\ ~Passes(pass[p].raw[1], KeywordsOf(p))
    /\ pass[p].entries = << pass[p].raw[2] >>

\* ---- properties of the startup configuration --------------------------------------
\* C25: with the in-memory store the orchestrator runs with first-run-latest-only
\* enabled whatever FIRST_RUN_LATEST_ONLY is configured to (a first run selects
\* one entry); the configured value is honoured with the durable store (a first
\* run selects one entry when it is true, every undelivered entry when false).
C25_FirstRunMode ==
  /\ storeKind = "memory" => firstRunLatestOnly
  /\ storeKind = "sqlite" => firstRunLatestOnly = cfgFirstRunLatestOnly
  /\ \A p \in Selecting :
       pass[p].isFirstRun
         => IF storeKind = "memory" \/ cfgFirstRunLatestOnly
            THEN Len(pass[p].newEntries) = 1
            ELSE ~pass[p].checkErr
                   => Range(pass[p].newEntries) =
                        {e \in Range(pass[p].entries) : e.GUID \notin pass[p].procBefore}

C25_Witness ==
  \E p \in Finished :
    /\ storeKind = "memory" /\ ~cfgFirstRunLatestOnly
    /\ pass[p].isFirstRun
    /\ Len(pass[p].entries) = 2
    /\ pass[p].entries[1].GUID # pass[p].entries[2].GUID
    /\ Len(pass[p].posted) = 1

\* ---- properties of summarization ----------------------------------------------------
\* the ProcessFeed calls that have built a note
Noted == {p \in DOMAIN pass : pass[p].attempts # <<>>}

\* the text carries the summary section
HasSummarySection(text) == \E i \in 1..Len(text) : text[i] = SummaryHeading

\* the Summarize call returned a non-empty summary and no error
Produced(call) == call # <<>> /\ ~call[1].err /\ Len(call[1].summary) > 0

C26_NoteOfSummary ==
  \A p \in Noted :
    /\ summarizerRepo \in {"nil", "disabled"} => pass[p].summarize = <<>>
    /\ HasSummarySection(pass[p].note) <=> Produced(pass[p].summarize)
    /\ Produced(pass[p].summarize)
         => \E i \in 1..Len(pass[p].note) :
              SubSeq(pass[p].note, i, i + 1) = <<"NL">> \o pass[p].summarize[1].summary

\* C26: summarization is best-effort: whatever Summarize returns, an error
\* included, the selected entry goes on to Post, with a message without
\* summary section on an error; a nil summarizer or one whose IsEnabled() is
\* false is never called; the message has the summary section iff a
\* non-empty summary was produced.
C26_BestEffortSummary ==
  /\ []C26_NoteOfSummary
  /\ [][\A p \in DOMAIN pass :
          /\ pass[p].pc = "post"
               => /\ pass'[p].pc \in {"post", "blocked", "http"}
                  /\ pass'[p].pc # "post" =>
                       pass'[p].attempts = Append(pass[p].attempts, pass[p].newEntries[pass[p].idx])
          /\ (pass[p].pc = "http" /\ Len(pass'[p].posted) > Len(pass[p].posted))
               => pass'[p].posted = Append(pass[p].posted, pass[p].attempts[Len(pass[p].attempts)])]_vars

C26_Witness ==
  \E p \in Noted :
    /\ summarizerRepo = "enabled"
    /\ pass[p].summarize # <<>> /\ pass[p].summarize[1].err
    /\ pass[p].posted = pass[p].attempts
    /\ ~HasSummarySection(pass[p].note)

\* ---- properties of the article text acquisition --------------------------------------
\* the loop bodies past the summary block
Summarized == {p \in DOMAIN pass : pass[p].pc \in {"post", "next"}}

C27_Acquisition ==
  \A p \in Summarized :
    LET ps == pass[p]
        description == ps.entry.Description
    IN summarizerRepo = "enabled"
         => /\ ps.fetch # <<>>
                 <=> (ps.contentFetcher # "nil" /\ Len(description) < MinContentLen)
            /\ (ps.fetch # <<>> /\ ps.fetch[1].err)
                 => IF description = <<>> THEN ps.summarize = <<>>
                    ELSE ps.summarize # <<>> /\ ps.summarize[1].content = description
            /\ Len(description) >= MinContentLen
                 => /\ ps.fetch = <<>>
                    /\ ps.summarize # <<>> /\ ps.summarize[1].content = description

\* C27: with an enabled summarizer the content fetcher is called for an entry
\* iff a fetcher is configured and the description is shorter than 100 bytes;
\* when the fetch fails the description is what is summarized and the entry
\* still goes to Post; with a description of 100 bytes or more the fetcher is
\* not called and the summarizer is called once, with the description.
C27_ArticleText ==
  /\ []C27_Acquisition
  /\ [][\A p \in DOMAIN pass :
          pass[p].pc = "summary"
            => pass'[p].pc = "post" /\ pass'[p].entry = pass[p].entry]_vars

C27_Witness ==
  \E p \in Summarized :
    /\ summarizerRepo = "enabled"
    /\ pass[p].contentFetcher = "configured"
    /\ Len(pass[p].entry.Description) = MinContentLen - 1
    /\ pass[p].fetch # <<>> /\ pass[p].fetch[1].err
    /\ pass[p].summarize # <<>> /\ pass[p].summarize[1].content = pass[p].entry.Description
    /\ pass[p].posted

\* ---- properties of the pass as a whole -----------------------------------------------
\* the latest publish instant among the entries of s
RECURSIVE MaxPublished(_)
MaxPublished(s) ==
  IF Len(s) = 0 THEN ZeroTime
  ELSE LET rest == MaxPublished(Tail(s))
       IN IF s[1].Published > rest THEN s[1].Published ELSE rest

\* C28: after a pass in which at least one post succeeded the stored watermark
\* is the maximum publish timestamp among the entries posted in that pass;
\* after a pass in which no post succeeded the watermark and the delivered set
\* are as they were (stated of the passes that returned nil).
C28_WatermarkOfPosted ==
  \A p \in Selecting :
    (pass[p].pc = "ret" /\ pass[p].err = "nil")
      => IF pass[p].posted # <<>>
         THEN Watermark(pass[p].url) = MaxPublished(pass[p].posted)
         ELSE /\ Watermark(pass[p].url) = pass[p].latestPublished
              /\ processedGUIDs = pass[p].procBefore

\* the ProcessFeed calls that gave up on a failed Fetch or GetLatestPublishedTime
GaveUp == {p \in DOMAIN pass : pass[p].failed # "none"}

C29_NothingDone ==
  \A p \in GaveUp :
    /\ pass[p].pc = "ret" /\ pass[p].err # "nil"
    /\ pass[p].attempts = <<>> /\ pass[p].posted = <<>>
    /\ IsZero(pass[p].latestTime)
    /\ processedGUIDs = pass[p].procBefore

\* C29: when the feed fetch or the watermark read fails, ProcessFeed returns a
\* non-nil error for that feed, and in that pass no message is posted, no
\* identifier is marked and no watermark is written: up to the watermark read
\* a pass changes nothing in the store.
C29_FatalToPass ==
  /\ []C29_NothingDone
  /\ [][\A p \in DOMAIN pass :
          (pass[p].pc \in {"fetch", "select"} \/ pass'[p].failed # "none")
            => cache' = cache /\ delivered' = delivered]_vars

C29_Witness ==
  \E p \in GaveUp :
    /\ pass[p].failed = "latest"
    /\ Len(pass[p].entries) = 2
    /\ latestPublished[pass[p].url] # <<>>
    /\ \E g \in GUIDs : g \in processedGUIDs /\ g \in GuidsOf(pass[p].entries)
    /\ \E g \in GUIDs : g \notin processedGUIDs /\ g \in GuidsOf(pass[p].entries)

\* every guid whose Post returned nil, for any feed address
Delivered == UNION {delivered[u] : u \in DOMAIN delivered}

\* the call p gets nil from Post in this step
PostSucceeds(p) ==
  /\ pass[p].pc = "http"
  /\ pass'[p].posted = Append(pass[p].posted, pass[p].newEntries[pass[p].idx])

\* C30: the delivered set holds only identifiers of entries whose Post returned
\* success, in every reachable state, those of cancelled and failed passes
\* included: an identifier is marked only by the step in which Post succeeds
\* for that entry, and MarkAsProcessed is not called (it neither marks nor
\* fails) for an entry whose post failed or was not attempted.
C30_MarkedOnlyAfterPost ==
  /\ [](processedGUIDs \subseteq Delivered)
  /\ [][/\ \A g \in processedGUIDs' \ processedGUIDs :
             \E p \in DOMAIN pass :
               PostSucceeds(p) /\ pass[p].newEntries[pass[p].idx].GUID = g
        /\ \A p \in DOMAIN pass :
             (pass'[p].markErr /\ ~pass[p].markErr) => PostSucceeds(p)]_vars

C30_Witness ==
  \E p \in DOMAIN pass :
    /\ ctxCancelled
    /\ Len(pass[p].attempts) = 2
    /\ Len(pass[p].posted) = 1
    /\ pass[p].attempts[1] = pass[p].posted[1]
    /\ pass[p].attempts[2].GUID # pass[p].attempts[1].GUID
    /\ processedGUIDs = {pass[p].posted[1].GUID}

\* ---- properties of concurrent passes ------------------------------------------
\* the Post of the entry in hand of p succeeds in this step
PostedNow(p) ==
  /\ pass[p].pc = "http"
  /\ Len(pass'[p].posted) > Len(pass[p].posted)

\* C31: when two ProcessFeed passes run concurrently against the same dedup
\* store and rate limiter, no entry identifier has a successful Post twice,
\* under every interleaving of their checks, posts and marks (stated of fetched
\* lists of distinct identifiers, on the store whose calls never fail).
C31_ConcurrentAtMostOnce ==
  [][\A p \in DOMAIN pass :
       (PostedNow(p) /\ storeKind = "memory" /\ DistinctGuids(pass[p].entries))
         => pass[p].newEntries[pass[p].idx].GUID \notin delivered[pass[p].url]]_vars

\* C32: dedup is scoped by feed address: an identifier marked delivered while
\* feed X was processed does not make an entry with that identifier skipped when
\* another address Y is processed: an entry of Y's list that is newer than Y's
\* watermark and was never delivered for Y is selected (stated of non-first-run
\* selections in which no IsProcessed call failed).
C32_DedupScopedByFeed ==
  \A p \in Selecting :
    (~pass[p].isFirstRun /\ ~pass[p].checkErr)
      => \A e \in Range(pass[p].entries) :
           (IsNewerThan(e, pass[p].latestPublished) /\ e.GUID \notin delivered[pass[p].url])
             => e \in Range(pass[p].newEntries)

\* ---- more properties of the rate limiter --------------------------------------
\* c goes through the first locked section of Wait in this step
EntersNow(c) ==
  /\ pass[c].pc \in {"ready", "returned"}
  /\ pass'[c] # pass[c]
  /\ \/ pass'[c].pc = "blocked"
     \/ pass'[c].pc = "returned" /\ pass'[c].sinceGrant = 0

\* C33: the refill step of Wait, when k >= 1 whole refill intervals have elapsed
\* since lastRefill, sets permits to min(permits + k, capacity) and advances
\* lastRefill by exactly k intervals: the remainder of the elapsed time is kept.
C33_RefillKeepsRemainder ==
  [][\A c \in DOMAIN pass :
       (/\ EntersNow(c)
        /\ sinceRefill < SinceRefillCap
        /\ permitsToAdd(sinceRefill, refillRate) >= 1)
         => /\ pass'[c].found = min(permits + permitsToAdd(sinceRefill, refillRate), maxPermits)
            /\ sinceRefill' = sinceRefill - permitsToAdd(sinceRefill, refillRate) * refillRate]_vars

\* the callers that are inside a Wait call
InWait == {c \in DOMAIN pass : pass[c].pc \notin {"ready", "returned"}}

\* what holds of Wait on every path: the mutex has one holder at most and is held
\* only inside a section; the timer of a blocked call is due within refillRate of
\* the start of its wait; a return is nil or, under a cancelled context, ctx.Err()
C34_WaitPaths ==
  /\ \A c, d \in DOMAIN pass : (pass[c].holdsMu /\ pass[d].holdsMu) => c = d
  /\ \A c \in DOMAIN pass :
       /\ pass[c].holdsMu <=> pass[c].pc \in {"locked", "timerlocked"}
       /\ pass[c].pc = "blocked" => pass[c].timer + pass[c].waited <= refillRate
       /\ pass[c].pc = "returned" =>
            \/ pass[c].err = "nil"
            \/ pass[c].err = "context canceled" /\ ctxCancelled /\ ~pass[c].viaTimer

\* C34: every Wait call terminates: a call on an exhausted limiter returns nil
\* once its timer, set to at most one refillInterval, has fired, and a blocked
\* call whose context is cancelled returns; the mutex is released on every
\* return path, so no caller stays blocked forever.
C34_WaitTerminates ==
  /\ []C34_WaitPaths
  /\ \A c \in Callers : (c \in InWait) ~> (pass[c].pc = "returned")

C34_Witness ==
  /\ \E c \in DOMAIN pass :
       pass[c].pc = "returned" /\ pass[c].viaTimer /\ pass[c].waited = refillRate
  /\ \E c \in DOMAIN pass : pass[c].pc = "returned" /\ pass[c].err = "context canceled"
  /\ refillRate = MaxRefill

\* ---- properties of a pass under fair scheduling ---------------------------------
\* the ProcessAllFeeds calls under way
Running == {p \in DOMAIN pass : pass[p].pc \notin {"idle", "done"}}

\* no retry inside a pass: the attempts of a ProcessFeed call are the selected
\* entries in order, each once, and all of them once the loop is left
C35_OneAttemptEach ==
  \A p \in DOMAIN pass :
    /\ Len(pass[p].attempts) <= Len(pass[p].newEntries)
    /\ pass[p].attempts = SubSeq(pass[p].newEntries, 1, Len(pass[p].attempts))
    /\ (pass[p].selected /\ pass[p].pc \in {"save", "ret"})
         => pass[p].attempts = pass[p].newEntries

\* C35: every ProcessAllFeeds pass terminates under fair scheduling, also when
\* every Post or every fetch fails: each selected entry is attempted once per
\* pass, and a failing entry or sink keeps no later entry or feed from its attempt.
C35_PassTerminates ==
  /\ []C35_OneAttemptEach
  /\ \A p \in {MainThread} : (p \in Running) ~> (pass[p].pc = "done")

C35_Witness ==
  \E p \in DOMAIN pass :
    /\ pass[p].pc = "ret"
    /\ pass[p].feedIdx = Len(rssSettings)
    /\ 1 \in pass[p].failedFeeds
    /\ Len(pass[p].attempts) = MaxLen
    /\ pass[p].posted = <<>>
    /\ pass[p].attempts = pass[p].newEntries

\* ---- more properties of the orchestrator ----------------------------------------
\* C36: within one ProcessFeed pass no entry identifier is posted more than
\* once, also when the fetched list holds several entries with that identifier.
C36_OncePerPass == \A p \in DOMAIN pass : DistinctGuids(pass[p].posted)

\* the entry e is in the list a pass is about to select from
InFeed(e) == \E p \in DOMAIN pass : pass[p].pc = "select" /\ e \in Range(pass[p].entries)

\* the entry e is among the entries a pass selected for delivery
IsSelected(e) == \E p \in DOMAIN pass : e \in Range(pass[p].newEntries)

\* no Post of a pass has failed
NoPostFailed ==
  \A p \in DOMAIN pass :
    /\ ~pass[p].waitCancelled
    /\ pass[p].pc \in {"blocked", "http"} => Len(pass[p].attempts) = Len(pass[p].posted) + 1
    /\ pass[p].pc \notin {"blocked", "http"} => Len(pass[p].attempts) = Len(pass[p].posted)

Unsaved(u) ==
  {p \in DOMAIN pass : pass[p].url = u /\ pass[p].pc \in {"post", "blocked", "http", "save"}}

\* no selection under way for u holds an entry published at t or before
NoneUpTo(u, t) ==
  \A p \in Unsaved(u) : \A e \in Range(pass[p].newEntries) : e.Published > t

CheckFailed == {p \in Selecting : pass[p].checkErrs # {}}

\* C38: an entry for which IsProcessed returned an error during selection is not
\* posted in that pass; selection goes on with the other entries as if nothing
\* had happened; ProcessFeed returns no error because of it; the pass leaves the
\* entry unmarked, so that a later pass selects it unless it is already delivered
\* or the watermark has reached its publish timestamp (stated of fetched lists
\* of distinct identifiers).
C38_CheckErrorSkips ==
  \A p \in CheckFailed :
    LET ps == pass[p]
        W == Watermark(ps.url)
    IN DistinctGuids(ps.entries)
         => /\ \A i \in ps.checkErrs :
                 /\ ps.entries[i] \notin Range(ps.newEntries)
                 /\ ps.entries[i] \notin Range(ps.attempts)
                 /\ ps.pc = "ret" =>
                      /\ (ps.entries[i].GUID \in processedGUIDs
                            <=> ps.entries[i].GUID \in ps.procBefore)
                      /\ (/\ ps.entries[i].GUID \notin ps.procBefore
                          /\ (IsZero(W) \/ ps.entries[i].Published > W))
                           => ps.entries[i] \in
                                Range(filterLoop(ps.entries, 1, W, IsZero(W), processedGUIDs, {}))
            /\ \A j \in (1..Len(ps.entries)) \ ps.checkErrs :
                 ps.entries[j] \in Range(ps.newEntries)
                   <=> /\ ps.entries[j].GUID \notin ps.procBefore
                       /\ (ps.isFirstRun \/ ps.entries[j].Published > ps.latestPublished)
            /\ ps.pc = "ret" => ps.err \in {"nil", "save"}
            /\ (ps.pc = "ret" /\ ps.err = "save") => ~IsZero(ps.latestTime)

C38_Witness ==
  \E p \in CheckFailed :
    /\ pass[p].pc = "ret" /\ pass[p].err = "nil"
    /\ Len(pass[p].posted) >= 1
    /\ DistinctGuids(pass[p].entries)
    /\ \E i \in pass[p].checkErrs :
         /\ pass[p].entries[i].GUID \notin processedGUIDs
         /\ pass[p].entries[i].Published > Watermark(pass[p].url)

\* C39: when MarkAsProcessed fails after a successful post, the entry still
\* counts for the watermark: once the save has succeeded the stored watermark is
\* at least its publish timestamp, and a later non-first-run pass over the same
\* list does not select it again, although it is absent from the delivered set.
C39_MarkFailureCovered ==
  \A p \in Selecting :
    (pass[p].pc = "ret" /\ pass[p].err = "nil" /\ pass[p].markErr)
      => \A e \in Range(pass[p].posted) :
           /\ Watermark(pass[p].url) >= e.Published
           /\ e \notin Range(filterNewEntries(pass[p].entries, Watermark(pass[p].url),
                                              IsZero(Watermark(pass[p].url)), firstRunLatestOnly,
                                              processedGUIDs, {}))

\* C40: a successful Wait consumes exactly one permit and discards none: when
\* the timer of a blocked caller fires, the permit count it leaves is the count
\* it finds on re-acquiring the lock, plus the one granted, minus the one consumed.
C40_TimerKeepsPermits ==
  [][\A c \in DOMAIN pass : GrantedByTimer(c) => permits' = permits + 1 - 1]_vars
====
